---- MODULE Spec2Model ----
(***************************************************************************)
(* Model of rust/src/program/mod.rs: ProgramManager, its constructor `new`, *)
(* the three resolver factories and `send_transaction`.                     *)
(*                                                                          *)
(* Option<T> is modelled as a sequence of length <= 1 (<<>> is None,        *)
(* <<x>> is Some(x)); Result<T> as a record [ok, err, val].                 *)
(* Every call records, besides its result, the ordered list of the calls    *)
(* it made to its collaborators (resolver constructors, consensus store,   *)
(* VM, API client).                                                         *)
(***************************************************************************)
EXTENDS Integers, Sequences, FiniteSets, TLC

VARIABLES managers, origin, last

vars == <<managers, origin, last>>

\* ---- bounds -------------------------------------------------------------
MaxManagers == 1

\* ---- input domains ------------------------------------------------------
PrivateKeys == {"key1"}
Ciphertexts == {"ct1"}
NetworkConfigs == {"cfgA", "cfgB"}
UsableDirs == {"dir_ok"}
LocalDirectoryInputs ==
    { [convertible |-> FALSE, dir |-> "not_a_path"],
      [convertible |-> TRUE, dir |-> "dir_ok"],
      [convertible |-> TRUE, dir |-> "dir_missing"] }
Transactions ==
    { [id |-> "tx1", wellformed |-> TRUE], [id |-> "tx2", wellformed |-> FALSE] }
StoreOutcomes == {"Ok", "store open failed"}
VMOutcomes == {"Ok", "vm init failed"}
BroadcastOutcomes == {"Ok", "rejected by remote", "connection refused"}
ProgramIds == {"hello.aleo"}
LocalOutcomes == {"Found", "NotFound", "IoError"}
RemoteOutcomes == {"Found", "NotFound", "NetError"}

\* ---- Option / Result ----------------------------------------------------
None == <<>>
Some(x) == <<x>>
is_some(o) == Len(o) = 1
is_none(o) == Len(o) = 0
OptionOf(S) == {None} \cup { Some(x) : x \in S }

Ok(v) == [ok |-> TRUE, err |-> "", val |-> <<v>>]
Err(e) == [ok |-> FALSE, err |-> e, val |-> <<>>]

Event(c, a, e) == [call |-> c, arg |-> a, err |-> e]

\* ---- error messages -----------------------------------------------------
BothMsg == "Cannot have both private key and private key ciphertext"
NeitherMsg == "Must have either private key or private key ciphertext"
PathMsg == "Path specified was not valid"
NoClientMsg == "No API client found"
PathInvalid == "PathInvalid"
NotFound == "NotFound"

\* ---- collaborators ------------------------------------------------------
ConsensusStoreOpen(store_res) ==
    IF store_res = "Ok" THEN Ok("ConsensusMemory") ELSE Err(store_res)

VMFrom(store, vm_res) ==
    IF vm_res = "Ok" THEN Ok([store |-> store]) ELSE Err(vm_res)

TryIntoPathBuf(local_directory) ==
    IF local_directory.convertible THEN Ok(local_directory.dir) ELSE Err("TryInto::Error")

FileSystemResolverNew(dir) ==
    IF dir \in UsableDirs
    THEN Ok([kind |-> "FileSystem", dir |-> Some(dir), config |-> None])
    ELSE Err(PathInvalid)

AleoNetworkResolverNew(config) ==
    [kind |-> "Network", dir |-> None, config |-> Some(config)]

HybridResolverNew(config, dir) ==
    IF FileSystemResolverNew(dir).ok
    THEN Ok([kind |-> "Hybrid", dir |-> Some(dir), config |-> Some(config)])
    ELSE Err(FileSystemResolverNew(dir).err)

Resolvers ==
    { FileSystemResolverNew(d).val[1] : d \in UsableDirs }
    \cup { AleoNetworkResolverNew(c) : c \in NetworkConfigs }
    \cup { HybridResolverNew(c, d).val[1] : c \in NetworkConfigs, d \in UsableDirs }

\* ---- ProgramManager -----------------------------------------------------
\* Variant: the struct literal loses the plaintext key.
ProgramManager_DropsKey(vm, private_key, private_key_ciphertext, network_config, resolver) ==
    [vm |-> vm, private_key |-> None,
     private_key_ciphertext |-> private_key_ciphertext,
     network_config |-> network_config, resolver |-> resolver]

ProgramManager(vm, private_key, private_key_ciphertext, network_config, resolver) ==
    [vm |-> vm, private_key |-> private_key,
     private_key_ciphertext |-> private_key_ciphertext,
     network_config |-> network_config, resolver |-> resolver]

Outcome(result, events) == [result |-> result, events |-> events]

Prepend(events, o) == Outcome(o.result, events \o o.events)

\* Variant: the "both" check is missing.
new_NoBothCheck(private_key, private_key_ciphertext, network_config, resolver, store_res, vm_res) ==
    IF is_none(private_key) /\ is_none(private_key_ciphertext)
    THEN Outcome(Err(NeitherMsg), <<>>)
    ELSE LET store == ConsensusStoreOpen(store_res) IN
         IF ~store.ok
         THEN Outcome(Err(store.err), <<Event("ConsensusStore::open", "None", store.err)>>)
         ELSE LET vm == VMFrom(store.val[1], vm_res) IN
              IF ~vm.ok
              THEN Outcome(Err(vm.err),
                           <<Event("ConsensusStore::open", "None", ""),
                             Event("VM::from", store.val[1], vm.err)>>)
              ELSE Outcome(Ok(ProgramManager(vm.val[1], private_key,
                                             private_key_ciphertext,
                                             network_config, resolver)),
                           <<Event("ConsensusStore::open", "None", ""),
                             Event("VM::from", store.val[1], "")>>)

\* Variant: a VM instantiation failure is swallowed and a manager is returned.
new_IgnoresVMFailure(private_key, private_key_ciphertext, network_config, resolver, store_res, vm_res) ==
    IF is_some(private_key) /\ is_some(private_key_ciphertext)
    THEN Outcome(Err(BothMsg), <<>>)
    ELSE IF is_none(private_key) /\ is_none(private_key_ciphertext)
    THEN Outcome(Err(NeitherMsg), <<>>)
    ELSE LET store == ConsensusStoreOpen(store_res) IN
         IF ~store.ok
         THEN Outcome(Err(store.err), <<Event("ConsensusStore::open", "None", store.err)>>)
         ELSE LET vm == VMFrom(store.val[1], vm_res) IN
              Outcome(Ok(ProgramManager([store |-> store.val[1]], private_key,
                                        private_key_ciphertext,
                                        network_config, resolver)),
                      <<Event("ConsensusStore::open", "None", ""),
                        Event("VM::from", store.val[1], vm.err)>>)

\* Variant: the store is opened and the VM created before the identity checks.
new_StoreBeforeIdentity(private_key, private_key_ciphertext, network_config, resolver, store_res, vm_res) ==
    LET store == ConsensusStoreOpen(store_res) IN
    IF ~store.ok
    THEN Outcome(Err(store.err), <<Event("ConsensusStore::open", "None", store.err)>>)
    ELSE LET vm == VMFrom(store.val[1], vm_res)
             evs == <<Event("ConsensusStore::open", "None", ""),
                      Event("VM::from", store.val[1], vm.err)>>
         IN IF ~vm.ok
            THEN Outcome(Err(vm.err), evs)
            ELSE IF is_some(private_key) /\ is_some(private_key_ciphertext)
            THEN Outcome(Err(BothMsg), evs)
            ELSE IF is_none(private_key) /\ is_none(private_key_ciphertext)
            THEN Outcome(Err(NeitherMsg), evs)
            ELSE Outcome(Ok(ProgramManager(vm.val[1], private_key,
                                           private_key_ciphertext,
                                           network_config, resolver)), evs)

new(private_key, private_key_ciphertext, network_config, resolver, store_res, vm_res) ==
    IF is_some(private_key) /\ is_some(private_key_ciphertext)
    THEN Outcome(Err(BothMsg), <<>>)
    ELSE IF is_none(private_key) /\ is_none(private_key_ciphertext)
    THEN Outcome(Err(NeitherMsg), <<>>)
    ELSE LET store == ConsensusStoreOpen(store_res) IN
         IF ~store.ok
         THEN Outcome(Err(store.err), <<Event("ConsensusStore::open", "None", store.err)>>)
         ELSE LET vm == VMFrom(store.val[1], vm_res) IN
              IF ~vm.ok
              THEN Outcome(Err(vm.err),
                           <<Event("ConsensusStore::open", "None", ""),
                             Event("VM::from", store.val[1], vm.err)>>)
              ELSE Outcome(Ok(ProgramManager(vm.val[1], private_key,
                                             private_key_ciphertext,
                                             network_config, resolver)),
                           <<Event("ConsensusStore::open", "None", ""),
                             Event("VM::from", store.val[1], "")>>)

\* Variant: the factory drops the caller's network_config.
program_manager_with_local_resource_resolution_NoConfig(private_key, private_key_ciphertext, local_directory, network_config, store_res, vm_res) ==
    LET conv == TryIntoPathBuf(local_directory) IN
    IF ~conv.ok
    THEN Outcome(Err(PathMsg), <<Event("try_into", local_directory.dir, conv.err)>>)
    ELSE LET resolver == FileSystemResolverNew(conv.val[1])
             pre == <<Event("try_into", local_directory.dir, ""),
                      Event("FileSystemResolver::new", conv.val[1], resolver.err)>>
         IN IF ~resolver.ok
            THEN Outcome(Err(resolver.err), pre)
            ELSE Prepend(pre, new(private_key, private_key_ciphertext, None,
                                  resolver.val[1], store_res, vm_res))

program_manager_with_local_resource_resolution(private_key, private_key_ciphertext, local_directory, network_config, store_res, vm_res) ==
    LET conv == TryIntoPathBuf(local_directory) IN
    IF ~conv.ok
    THEN Outcome(Err(PathMsg), <<Event("try_into", local_directory.dir, conv.err)>>)
    ELSE LET resolver == FileSystemResolverNew(conv.val[1])
             pre == <<Event("try_into", local_directory.dir, ""),
                      Event("FileSystemResolver::new", conv.val[1], resolver.err)>>
         IN IF ~resolver.ok
            THEN Outcome(Err(resolver.err), pre)
            ELSE Prepend(pre, new(private_key, private_key_ciphertext, network_config,
                                  resolver.val[1], store_res, vm_res))

\* Variant: the config builds the resolver but is not threaded into the manager.
program_manager_with_network_resolution_NoConfig(private_key, private_key_ciphertext, network_config, store_res, vm_res) ==
    LET resolver == AleoNetworkResolverNew(network_config)
        pre == <<Event("AleoNetworkResolver::new", network_config, "")>>
    IN Prepend(pre, new(private_key, private_key_ciphertext, None,
                        resolver, store_res, vm_res))

program_manager_with_network_resolution(private_key, private_key_ciphertext, network_config, store_res, vm_res) ==
    LET resolver == AleoNetworkResolverNew(network_config)
        pre == <<Event("AleoNetworkResolver::new", network_config, "")>>
    IN Prepend(pre, new(private_key, private_key_ciphertext, Some(network_config),
                        resolver, store_res, vm_res))

\* Variant: the resolver is built from the raw input before the conversion
\* result is inspected.
program_manager_with_hybrid_resolution_ResolverFirst(private_key, private_key_ciphertext, local_directory, network_config, store_res, vm_res) ==
    LET conv == TryIntoPathBuf(local_directory)
        resolver == HybridResolverNew(network_config, local_directory.dir)
        pre == <<Event("HybridResolver::new", local_directory.dir, resolver.err),
                 Event("try_into", local_directory.dir, conv.err)>>
    IN IF ~resolver.ok
       THEN Outcome(Err(resolver.err), <<pre[1]>>)
       ELSE IF ~conv.ok
       THEN Outcome(Err(PathMsg), pre)
       ELSE Prepend(pre, new(private_key, private_key_ciphertext, Some(network_config),
                             resolver.val[1], store_res, vm_res))

program_manager_with_hybrid_resolution(private_key, private_key_ciphertext, local_directory, network_config, store_res, vm_res) ==
    LET conv == TryIntoPathBuf(local_directory) IN
    IF ~conv.ok
    THEN Outcome(Err(PathMsg), <<Event("try_into", local_directory.dir, conv.err)>>)
    ELSE LET resolver == HybridResolverNew(network_config, conv.val[1])
             pre == <<Event("try_into", local_directory.dir, ""),
                      Event("HybridResolver::new", conv.val[1], resolver.err)>>
         IN IF ~resolver.ok
            THEN Outcome(Err(resolver.err), pre)
            ELSE Prepend(pre, new(private_key, private_key_ciphertext, Some(network_config),
                                  resolver.val[1], store_res, vm_res))

\* Variant: a manager without a config broadcasts through a default client.
send_transaction_DefaultClient(self, transaction, broadcast_res) ==
    LET config == IF is_some(self.network_config) THEN self.network_config[1]
                  ELSE "cfgA"
        evs == <<Event("AleoAPIClient::from", config, ""),
                 Event("transaction_broadcast", transaction.id,
                       IF broadcast_res = "Ok" THEN "" ELSE broadcast_res)>>
    IN IF broadcast_res = "Ok"
       THEN Outcome(Ok("()"), evs)
       ELSE Outcome(Err(broadcast_res), evs)

\* Variant: ill-formed transactions are rejected locally before broadcast.
send_transaction_ValidatesLocally(self, transaction, broadcast_res) ==
    IF is_some(self.network_config)
    THEN IF ~transaction.wellformed
         THEN Outcome(Err("transaction is not well-formed"), <<>>)
         ELSE LET config == self.network_config[1]
                  evs == <<Event("AleoAPIClient::from", config, ""),
                           Event("transaction_broadcast", transaction.id,
                                 IF broadcast_res = "Ok" THEN "" ELSE broadcast_res)>>
              IN IF broadcast_res = "Ok"
                 THEN Outcome(Ok("()"), evs)
                 ELSE Outcome(Err(broadcast_res), evs)
    ELSE Outcome(Err(NoClientMsg), <<>>)

send_transaction(self, transaction, broadcast_res) ==
    IF is_some(self.network_config)
    THEN LET config == self.network_config[1]
             evs == <<Event("AleoAPIClient::from", config, ""),
                      Event("transaction_broadcast", transaction.id,
                            IF broadcast_res = "Ok" THEN "" ELSE broadcast_res)>>
         IN IF broadcast_res = "Ok"
            THEN Outcome(Ok("()"), evs)
            ELSE Outcome(Err(broadcast_res), evs)
    ELSE Outcome(Err(NoClientMsg), <<>>)

\* ---- resolution (resolvers module) --------------------------------------
FileSystemResolve(program_id, local) ==
    IF local = "Found"
    THEN Outcome(Ok([program |-> program_id, from |-> "local"]),
                 <<Event("fs_read", program_id, "")>>)
    ELSE Outcome(Err(local), <<Event("fs_read", program_id, local)>>)

NetworkResolve(program_id, remote) ==
    IF remote = "Found"
    THEN Outcome(Ok([program |-> program_id, from |-> "remote"]),
                 <<Event("network_fetch", program_id, "")>>)
    ELSE Outcome(Err(remote), <<Event("network_fetch", program_id, remote)>>)

\* Variant: any local failure triggers the network fallback.
HybridResolve_FallbackOnAnyError(program_id, local, remote) ==
    LET l == FileSystemResolve(program_id, local) IN
    IF l.result.ok
    THEN l
    ELSE Prepend(l.events, NetworkResolve(program_id, remote))

HybridResolve(program_id, local, remote) ==
    LET l == FileSystemResolve(program_id, local) IN
    IF l.result.ok \/ l.result.err # NotFound
    THEN l
    ELSE Prepend(l.events, NetworkResolve(program_id, remote))

resolve_program(resolver, program_id, local, remote) ==
    CASE resolver.kind = "FileSystem" -> FileSystemResolve(program_id, local)
      [] resolver.kind = "Network" -> NetworkResolve(program_id, remote)
      [] resolver.kind = "Hybrid" -> HybridResolve(program_id, local, remote)

\* ---- state machine ------------------------------------------------------
NoArgs ==
    [private_key |-> None, private_key_ciphertext |-> None, network_config |-> None,
     local_directory |-> None, resolver |-> None, transaction |-> None,
     program_id |-> None, mgr |-> 0,
     store_res |-> "", vm_res |-> "", broadcast_res |-> "", local |-> "", remote |-> ""]

Init ==
    /\ managers = <<>>
    /\ origin = <<>>
    /\ last = [op |-> "none", args |-> NoArgs, result |-> Err(""), events |-> <<>>]

Construct(op, args, o) ==
    /\ last' = [op |-> op, args |-> args, result |-> o.result, events |-> o.events]
    /\ IF o.result.ok
       THEN /\ managers' = Append(managers, o.result.val[1])
            /\ origin' = Append(origin, [via |-> op, args |-> args])
       ELSE UNCHANGED <<managers, origin>>

CallNew ==
    /\ Len(managers) < MaxManagers
    /\ \E pk \in OptionOf(PrivateKeys), ct \in OptionOf(Ciphertexts),
          nc \in OptionOf(NetworkConfigs), r \in Resolvers,
          s \in StoreOutcomes, v \in VMOutcomes :
          Construct("new",
                    [NoArgs EXCEPT !.private_key = pk, !.private_key_ciphertext = ct,
                                   !.network_config = nc, !.resolver = Some(r),
                                   !.store_res = s, !.vm_res = v],
                    new(pk, ct, nc, r, s, v))

CallLocal ==
    /\ Len(managers) < MaxManagers
    /\ \E pk \in OptionOf(PrivateKeys), ct \in OptionOf(Ciphertexts),
          d \in LocalDirectoryInputs, nc \in OptionOf(NetworkConfigs),
          s \in StoreOutcomes, v \in VMOutcomes :
          Construct("local",
                    [NoArgs EXCEPT !.private_key = pk, !.private_key_ciphertext = ct,
                                   !.network_config = nc, !.local_directory = Some(d),
                                   !.store_res = s, !.vm_res = v],
                    program_manager_with_local_resource_resolution(pk, ct, d, nc, s, v))

CallNetwork ==
    /\ Len(managers) < MaxManagers
    /\ \E pk \in OptionOf(PrivateKeys), ct \in OptionOf(Ciphertexts),
          nc \in NetworkConfigs, s \in StoreOutcomes, v \in VMOutcomes :
          Construct("network",
                    [NoArgs EXCEPT !.private_key = pk, !.private_key_ciphertext = ct,
                                   !.network_config = Some(nc),
                                   !.store_res = s, !.vm_res = v],
                    program_manager_with_network_resolution(pk, ct, nc, s, v))

CallHybrid ==
    /\ Len(managers) < MaxManagers
    /\ \E pk \in OptionOf(PrivateKeys), ct \in OptionOf(Ciphertexts),
          d \in LocalDirectoryInputs, nc \in NetworkConfigs,
          s \in StoreOutcomes, v \in VMOutcomes :
          Construct("hybrid",
                    [NoArgs EXCEPT !.private_key = pk, !.private_key_ciphertext = ct,
                                   !.network_config = Some(nc), !.local_directory = Some(d),
                                   !.store_res = s, !.vm_res = v],
                    program_manager_with_hybrid_resolution(pk, ct, d, nc, s, v))

SendTransaction ==
    \E i \in DOMAIN managers, tx \in Transactions, b \in BroadcastOutcomes :
        LET o == send_transaction(managers[i], tx, b) IN
        /\ last' = [op |-> "send",
                    args |-> [NoArgs EXCEPT !.mgr = i, !.transaction = Some(tx),
                                            !.broadcast_res = b],
                    result |-> o.result, events |-> o.events]
        /\ UNCHANGED <<managers, origin>>

ResolveProgram ==
    \E i \in DOMAIN managers, p \in ProgramIds, l \in LocalOutcomes, r \in RemoteOutcomes :
        LET o == resolve_program(managers[i].resolver, p, l, r) IN
        /\ last' = [op |-> "resolve",
                    args |-> [NoArgs EXCEPT !.mgr = i, !.program_id = Some(p),
                                            !.local = l, !.remote = r],
                    result |-> o.result, events |-> o.events]
        /\ UNCHANGED <<managers, origin>>

Next ==
    \/ CallNew
    \/ CallLocal
    \/ CallNetwork
    \/ CallHybrid
    \/ SendTransaction
    \/ ResolveProgram

Spec == Init /\ [][Next]_vars

\* ---- helpers for the properties -----------------------------------------
ConstructOps == {"new", "local", "network", "hybrid"}
FactoryOps == {"local", "network", "hybrid"}

CallNames(evs) == [i \in DOMAIN evs |-> evs[i].call]
CountCalls(evs, c) == Cardinality({ i \in DOMAIN evs : evs[i].call = c })
IsPrefix(a, b) == Len(a) <= Len(b) /\ \A i \in DOMAIN a : a[i] = b[i]

Both(a) == is_some(a.private_key) /\ is_some(a.private_key_ciphertext)
Neither(a) == is_none(a.private_key) /\ is_none(a.private_key_ciphertext)
ExactlyOne(a) == ~Both(a) /\ ~Neither(a)

ResourceCalls ==
    {"FileSystemResolver::new", "AleoNetworkResolver::new", "HybridResolver::new",
     "ConsensusStore::open", "VM::from"}

StepOrder(op) ==
    CASE op = "new" -> <<"ConsensusStore::open", "VM::from">>
      [] op = "local" -> <<"try_into", "FileSystemResolver::new",
                           "ConsensusStore::open", "VM::from">>
      [] op = "network" -> <<"AleoNetworkResolver::new",
                             "ConsensusStore::open", "VM::from">>
      [] op = "hybrid" -> <<"try_into", "HybridResolver::new",
                            "ConsensusStore::open", "VM::from">>

\* Number of steps a factory runs before it calls `new`.
PreSteps(op) == Len(StepOrder(op)) - 2

\* C1: new fails with the "both" message when both identity forms are given,
\* with the different "neither" message when none is given, and returns a
\* manager when exactly one is given and store open and VM creation succeed.
C1_NewIdentityContract ==
    last.op = "new" =>
        LET a == last.args IN
        /\ BothMsg # NeitherMsg
        /\ Both(a) => last.result = Err(BothMsg)
        /\ Neither(a) => last.result = Err(NeitherMsg)
        /\ (ExactlyOne(a) /\ a.store_res = "Ok" /\ a.vm_res = "Ok") =>
              /\ last.result.ok
              /\ Len(last.result.val) = 1
              /\ managers[Len(managers)] = last.result.val[1]

C1_Witness ==
    /\ last.op = "new"
    /\ Both(last.args)
    /\ last.args.store_res = "Ok" /\ last.args.vm_res = "Ok"
    /\ last.result = Err(BothMsg)

\* C2: every manager that exists holds exactly one of private_key and
\* private_key_ciphertext, equal to what its constructor call was given,
\* also after send_transaction calls, successful or failed.
C2_IdentityExactlyOneAndFixed ==
    \A i \in DOMAIN managers :
        /\ is_some(managers[i].private_key) # is_some(managers[i].private_key_ciphertext)
        /\ managers[i].private_key = origin[i].args.private_key
        /\ managers[i].private_key_ciphertext = origin[i].args.private_key_ciphertext

C2_Witness ==
    /\ last.op = "send"
    /\ ~last.result.ok
    /\ is_some(managers[last.args.mgr].private_key)
    /\ is_none(managers[last.args.mgr].private_key_ciphertext)

\* C3: send_transaction on a manager without network_config fails with the
\* "No API client found" error and makes no client and no broadcast.
C3_NoConfigNoNetwork ==
    (last.op = "send" /\ is_none(managers[last.args.mgr].network_config)) =>
        /\ last.result = Err(NoClientMsg)
        /\ last.events = <<>>

C3_Witness ==
    /\ last.op = "send"
    /\ is_none(managers[last.args.mgr].network_config)
    /\ last.args.transaction[1].wellformed
    /\ last.args.broadcast_res = "Ok"
    /\ last.result = Err(NoClientMsg)

\* C4 (as claimed): send_transaction on any manager built by the local
\* factory fails with the network-unavailable error, whatever the factory's
\* arguments were.
C4_LocalFactoryNeverBroadcasts ==
    (last.op = "send" /\ origin[last.args.mgr].via = "local") =>
        last.result = Err(NoClientMsg)

\* C4 (amended): a manager built by the local factory stores exactly the
\* optional network_config the factory was given; send_transaction on it
\* fails with the network-unavailable error if and only if that argument
\* was absent, whatever the transaction.
C4_LocalFactoryKeepsOptionalConfig ==
    /\ \A i \in DOMAIN managers :
          origin[i].via = "local" =>
              managers[i].network_config = origin[i].args.network_config
    /\ (last.op = "send" /\ origin[last.args.mgr].via = "local") =>
          (last.result = Err(NoClientMsg)
             <=> is_none(origin[last.args.mgr].args.network_config))

C4_Witness ==
    /\ last.op = "send"
    /\ origin[last.args.mgr].via = "local"
    /\ is_some(origin[last.args.mgr].args.network_config)
    /\ last.result.ok
    /\ CountCalls(last.events, "transaction_broadcast") = 1

\* C5: in the local and hybrid factories a failed path conversion yields the
\* "Path specified was not valid" error, and no resolver was constructed,
\* no store opened and no VM created, whatever the identity arguments.
C5_PathErrorBeforeResources ==
    (last.op \in {"local", "hybrid"} /\ ~last.args.local_directory[1].convertible) =>
        /\ last.result = Err(PathMsg)
        /\ PathMsg \notin {BothMsg, NeitherMsg, NoClientMsg, PathInvalid}
        /\ \A i \in DOMAIN last.events : last.events[i].call \notin ResourceCalls

C5_Witness ==
    /\ last.op = "hybrid"
    /\ ~last.args.local_directory[1].convertible
    /\ Both(last.args)
    /\ last.result = Err(PathMsg)

\* C6: a hybrid resolver reads the file system first; a local hit makes no
\* network call, a local NotFound falls back to the network, and any other
\* local error is returned without a network call.
C6_HybridFallbackOnlyOnNotFound ==
    (last.op = "resolve" /\ managers[last.args.mgr].resolver.kind = "Hybrid") =>
        LET p == last.args.program_id[1] IN
        /\ last.events[1].call = "fs_read"
        /\ last.args.local = "Found" =>
              /\ last.result = Ok([program |-> p, from |-> "local"])
              /\ CountCalls(last.events, "network_fetch") = 0
        /\ (last.args.local = NotFound /\ last.args.remote = "Found") =>
              /\ last.result = Ok([program |-> p, from |-> "remote"])
              /\ CountCalls(last.events, "network_fetch") = 1
        /\ last.args.local \notin {"Found", NotFound} =>
              /\ last.result = Err(last.args.local)
              /\ CountCalls(last.events, "network_fetch") = 0

C6_Witness ==
    /\ last.op = "resolve"
    /\ managers[last.args.mgr].resolver.kind = "Hybrid"
    /\ last.args.local = "IoError"
    /\ last.args.remote = "Found"
    /\ last.result = Err("IoError")

\* C7: a constructor call that reaches the store returns the store's or the
\* VM's failure and adds no manager; a manager is added only by a call that
\* opened exactly one store and created exactly one VM, both successfully.
C7_ConstructionAtomic ==
    [][ last'.op \in ConstructOps =>
          LET evs == last'.events
              n == Len(evs)
          IN
          /\ (n > 0 /\ evs[n].call = "ConsensusStore::open" /\ evs[n].err # "") =>
                /\ last'.args.store_res # "Ok"
                /\ last'.result = Err(last'.args.store_res)
          /\ (n > 0 /\ evs[n].call = "VM::from" /\ evs[n].err # "") =>
                /\ last'.args.vm_res # "Ok"
                /\ last'.result = Err(last'.args.vm_res)
          /\ (last'.op = "new" /\ ExactlyOne(last'.args) /\ last'.args.store_res # "Ok") =>
                last'.result = Err(last'.args.store_res)
          /\ (last'.op = "new" /\ ExactlyOne(last'.args) /\ last'.args.store_res = "Ok"
                /\ last'.args.vm_res # "Ok") =>
                last'.result = Err(last'.args.vm_res)
          /\ IF last'.result.ok
             THEN /\ managers' = Append(managers, last'.result.val[1])
                  /\ last'.args.store_res = "Ok" /\ last'.args.vm_res = "Ok"
                  /\ CountCalls(evs, "ConsensusStore::open") = 1
                  /\ CountCalls(evs, "VM::from") = 1
                  /\ \A i \in DOMAIN evs : evs[i].err = ""
             ELSE /\ managers' = managers
                  /\ last'.result.val = <<>>
      ]_vars

C7_Witness ==
    /\ last.op = "new"
    /\ ExactlyOne(last.args)
    /\ last.args.store_res = "Ok"
    /\ last.args.vm_res # "Ok"
    /\ last.result = Err(last.args.vm_res)
    /\ managers = <<>>

\* C8: a manager built by the network or the hybrid factory stores the
\* config the factory was given, the one its resolver was built from, so
\* send_transaction on it never reports the network-unavailable error and
\* builds its client from that config.
C8_FactoryThreadsConfig ==
    /\ \A i \in DOMAIN managers :
          origin[i].via \in {"network", "hybrid"} =>
              /\ managers[i].network_config = origin[i].args.network_config
              /\ is_some(managers[i].network_config)
              /\ managers[i].resolver.config = managers[i].network_config
    /\ (last.op = "send" /\ origin[last.args.mgr].via \in {"network", "hybrid"}) =>
          /\ last.result # Err(NoClientMsg)
          /\ Len(last.events) >= 1
          /\ last.events[1] =
                Event("AleoAPIClient::from", origin[last.args.mgr].args.network_config[1], "")

C8_Witness ==
    /\ last.op = "send"
    /\ origin[last.args.mgr].via = "network"
    /\ origin[last.args.mgr].args.network_config = Some("cfgB")
    /\ last.events[1].arg = "cfgB"

\* C9: on a manager with a config, send_transaction builds one client from
\* the stored config and broadcasts once; it succeeds exactly when the
\* broadcast is accepted and otherwise returns the broadcast's error; the
\* transaction is broadcast whether or not it is well-formed, and the
\* managers are left as they were.
C9_SingleBroadcastPassThrough ==
    [][ (last'.op = "send" /\ is_some(managers[last'.args.mgr].network_config)) =>
          LET m == managers[last'.args.mgr]
              tx == last'.args.transaction[1]
              b == last'.args.broadcast_res
          IN
          /\ last'.events =
                <<Event("AleoAPIClient::from", m.network_config[1], ""),
                  Event("transaction_broadcast", tx.id, IF b = "Ok" THEN "" ELSE b)>>
          /\ last'.result.ok <=> b = "Ok"
          /\ ~last'.result.ok => last'.result = Err(b)
          /\ managers' = managers
      ]_vars

C9_Witness ==
    /\ last.op = "send"
    /\ is_some(managers[last.args.mgr].network_config)
    /\ ~last.args.transaction[1].wellformed
    /\ last.result.ok
    /\ CountCalls(last.events, "transaction_broadcast") = 1

\* C10: a factory runs path conversion (local, hybrid), resolver
\* construction, identity validation, store open and VM creation in that
\* order and stops at the first failure; an identity error is reported only
\* after the resolver was built, is masked by a path or resolver error, and
\* is reported before any store is opened.
C10_FactoryStepOrder ==
    last.op \in FactoryOps =>
        LET evs == last.events
            n == Len(evs)
            pre == PreSteps(last.op)
            a == last.args
            preOk == n >= pre /\ \A i \in 1..pre : evs[i].err = ""
        IN
        /\ IsPrefix(CallNames(evs), StepOrder(last.op))
        /\ \A i \in 1..(n - 1) : evs[i].err = ""
        /\ (n > 0 /\ evs[n].err # "") => ~last.result.ok
        /\ last.result.err \in {BothMsg, NeitherMsg} =>
              /\ n = pre
              /\ \A i \in 1..n : evs[i].err = ""
              /\ CountCalls(evs, "ConsensusStore::open") = 0
        /\ (~ExactlyOne(a) /\ ~preOk) =>
              /\ last.result.err \notin {BothMsg, NeitherMsg}
              /\ ~last.result.ok
        /\ (Both(a) /\ preOk) => last.result = Err(BothMsg)
        /\ (Neither(a) /\ preOk) => last.result = Err(NeitherMsg)

C10_Witness ==
    /\ last.op = "local"
    /\ Neither(last.args)
    /\ last.args.store_res # "Ok"
    /\ last.result = Err(NeitherMsg)
    /\ CallNames(last.events) = <<"try_into", "FileSystemResolver::new">>

TypeOK ==
    /\ Len(managers) <= MaxManagers
    /\ Len(origin) = Len(managers)
====
